---- MODULE Spec2Model ----
(***************************************************************************)
(* The two scripted browser flows of testsprite_tests:                     *)
(*   TC004_Password_Reset_Flow.py                                          *)
(*   TC013_Invoice_Payment_Status_and_Error_Handling.py                    *)
(* Each is one coroutine, run_test, driven by asyncio.run at module level. *)
(* A state is the coroutine's position, its local handles, the exception   *)
(* in flight (with its __context__ chain) and the history of the calls it  *)
(* has made into the automation driver.  Every await is one action; the    *)
(* driver's answer (return, or raise one of the kinds the call can raise)  *)
(* is the action's input.                                                  *)
(***************************************************************************)
EXTENDS Naturals, Sequences, FiniteSets

VARIABLES
    flow,       \* which script is running
    pc,         \* position of run_test
    step,       \* index of the authored step being executed (0 before the first)
    frames,     \* len(page.frames) as seen by the for loop (0 before it is read)
    frame,      \* index of the frame the for loop is at
    pw,         \* local pw: "None" or the driver handle
    browser,    \* local browser: "None" or the browser handle
    context,    \* local context: "None" or the context handle
    page,       \* local page: "None" (unbound) or the page handle
    exc,        \* exception in flight, newest first, followed by its __context__ chain
    calls,      \* history of the awaited calls: <<[op, arg, res], ...>>
    status      \* the script process: "running", "exit 0" or "exit 1"

vars == <<flow, pc, step, frames, frame, pw, browser, context, page, exc, calls, status>>

Flows == {"TC004", "TC013"}

\* Largest number of frames page.frames holds when the loop starts.
MaxFrames == 2

(***************************************************************************)
(* The authored step lists, in source order.  A "click" or "fill" step is  *)
(*   await page.wait_for_timeout(3000); await elem.<action>(...)           *)
(* and a "goto" step is  await page.goto(...); await asyncio.sleep(3).     *)
(***************************************************************************)
Steps(f) ==
    IF f = "TC004"
    THEN << "click", "fill", "click", "goto", "fill", "fill", "click" >>
    ELSE << "fill", "fill", "click", "fill", "fill", "click", "click",
            "fill", "fill", "click", "click", "click", "fill", "click" >>

\* The message of the AssertionError raised when the final assertion fails,
\* as the fragments of the string literal.
FailureMessage(f) ==
    IF f = "TC004"
    THEN << "Test failed: Password reset process did not complete successfully as expected. ",
            "The password reset email might not have been sent or the ",
            "password was not updated",
            "." >>
    ELSE << "Test failed: ",
            "Invoice status did not update from Sent to Paid",
            " upon payment confirmation, or error states were not handled gracefully as per the test plan." >>

\* The message of an error raised by the driver itself.
DriverMessage(kind, op) == << kind, ": ", op >>

Contains(msg, phrase) == \E i \in DOMAIN msg : msg[i] = phrase

(***************************************************************************)
(* Exceptions.                                                             *)
(***************************************************************************)
\* The classes a raised kind is an instance of.
Bases(kind) ==
    CASE kind = "TimeoutError"   -> {"TimeoutError", "Error", "Exception"}
      [] kind = "Error"          -> {"Error", "Exception"}
      [] kind = "AssertionError" -> {"AssertionError", "Exception"}
      [] OTHER                   -> {"Exception"}

\* A faulty variant of Catches: the clause matches the named class only.
CatchesExactClass(clause, kind) == kind = clause

\* except <clause>: does it catch an exception of this kind?
Catches(clause, kind) == clause \in Bases(kind)

\* What an awaited call can raise.
Raises(op) ==
    CASE op = "sleep"  -> {}
      [] op = "expect" -> {"AssertionError", "Error"}
      [] OTHER         -> {"Error", "TimeoutError"}

Results(op) == {"ok"} \cup Raises(op)

Exception(kind, msg, site) == [kind |-> kind, msg |-> msg, site |-> site]

\* raise: the new exception becomes the one in flight, and the one being
\* handled (if any) is kept as its __context__.
Raise(e, handled) == <<e>> \o handled

Call(op, arg, res) == [op |-> op, arg |-> arg, res |-> res]

Truthy(h) == h /= "None"

(***************************************************************************)
(* The finally block: its statements in source order.                      *)
(***************************************************************************)
\* A faulty variant of TeardownOrder: the browser closed before the context.
TeardownOrderBrowserFirst == << "close_browser", "close_context", "stop_pw" >>

TeardownOrder == << "close_context", "close_browser", "stop_pw" >>

\* Where control enters the finally block.
FinallyEntry == TeardownOrder[1]

\* The statement after p in the finally block; run_test ends after the last.
AfterRelease(p) ==
    LET i == CHOOSE k \in DOMAIN TeardownOrder : TeardownOrder[k] = p
    IN  IF i < Len(TeardownOrder) THEN TeardownOrder[i + 1] ELSE "done"

Init ==
    /\ flow \in Flows
    /\ pc = "start"
    /\ step = 0
    /\ frames = 0
    /\ frame = 0
    /\ pw = "None"
    /\ browser = "None"
    /\ context = "None"
    /\ page = "None"
    /\ exc = << >>
    /\ calls = << >>
    /\ status = "running"

\* An exception raised inside the try body leaves it for the finally block.
Abort(op, arg, kind) ==
    /\ calls' = Append(calls, Call(op, arg, kind))
    /\ exc' = Raise(Exception(kind, DriverMessage(kind, op), pc), exc)
    /\ pc' = FinallyEntry

\* pw = await async_api.async_playwright().start()
Start ==
    /\ pc = "start"
    /\ \E r \in Results("start") :
        IF r = "ok"
        THEN /\ calls' = Append(calls, Call("start", 0, r))
             /\ pw' = "Playwright"
             /\ pc' = "launch"
             /\ UNCHANGED exc
        ELSE /\ Abort("start", 0, r)
             /\ UNCHANGED pw
    /\ UNCHANGED <<flow, step, frames, frame, browser, context, page, status>>

\* browser = await pw.chromium.launch(headless=True, args=[...])
Launch ==
    /\ pc = "launch"
    /\ \E r \in Results("launch") :
        IF r = "ok"
        THEN /\ calls' = Append(calls, Call("launch", 0, r))
             /\ browser' = "Browser"
             /\ pc' = "new_context"
             /\ UNCHANGED exc
        ELSE /\ Abort("launch", 0, r)
             /\ UNCHANGED browser
    /\ UNCHANGED <<flow, step, frames, frame, pw, context, page, status>>

\* context = await browser.new_context(); context.set_default_timeout(5000)
NewContext ==
    /\ pc = "new_context"
    /\ \E r \in Results("new_context") :
        IF r = "ok"
        THEN /\ calls' = Append(calls, Call("new_context", 0, r))
             /\ context' = "BrowserContext"
             /\ pc' = "new_page"
             /\ UNCHANGED exc
        ELSE /\ Abort("new_context", 0, r)
             /\ UNCHANGED context
    /\ UNCHANGED <<flow, step, frames, frame, pw, browser, page, status>>

\* A faulty variant of NewPage: a failure to open the page is ignored.
NewPageFailureIgnored ==
    /\ pc = "new_page"
    /\ \E r \in Results("new_page") :
        /\ calls' = Append(calls, Call("new_page", 0, r))
        /\ page' = IF r = "ok" THEN "Page" ELSE page
        /\ pc' = "goto"
        /\ UNCHANGED exc
    /\ UNCHANGED <<flow, step, frames, frame, pw, browser, context, status>>

\* page = await context.new_page()
NewPage ==
    /\ pc = "new_page"
    /\ \E r \in Results("new_page") :
        IF r = "ok"
        THEN /\ calls' = Append(calls, Call("new_page", 0, r))
             /\ page' = "Page"
             /\ pc' = "goto"
             /\ UNCHANGED exc
        ELSE /\ Abort("new_page", 0, r)
             /\ UNCHANGED page
    /\ UNCHANGED <<flow, step, frames, frame, pw, browser, context, status>>

\* await page.goto("http://localhost:3000", wait_until="commit", timeout=10000)
Goto ==
    /\ pc = "goto"
    /\ \E r \in Results("goto") :
        IF r = "ok"
        THEN /\ calls' = Append(calls, Call("goto", 0, r))
             /\ pc' = "wait_main"
             /\ UNCHANGED exc
        ELSE Abort("goto", 0, r)
    /\ UNCHANGED <<flow, step, frames, frame, pw, browser, context, page, status>>

\* try: await page.wait_for_load_state("domcontentloaded", timeout=3000)
\* except async_api.Error: pass
\* followed by the evaluation of page.frames for the loop.
WaitMain ==
    /\ pc = "wait_main"
    /\ \E r \in Results("wait_for_load_state") :
        /\ calls' = Append(calls, Call("wait_for_load_state", 0, r))
        /\ IF r = "ok" \/ Catches("Error", r)
           THEN /\ \E n \in 1..MaxFrames : frames' = n
                /\ frame' = 1
                /\ pc' = "wait_frames"
                /\ UNCHANGED exc
           ELSE /\ exc' = Raise(Exception(r, DriverMessage(r, "wait_for_load_state"), pc), exc)
                /\ pc' = FinallyEntry
                /\ UNCHANGED <<frames, frame>>
    /\ UNCHANGED <<flow, step, pw, browser, context, page, status>>

\* Where a step begins: a click or fill step at its settle delay, a goto
\* step at the navigation itself.
StepEntry(f, n) == IF Steps(f)[n] = "goto" THEN "act" ELSE "settle"

\* for frame in page.frames:
\*     try: await frame.wait_for_load_state("domcontentloaded", timeout=3000)
\*     except async_api.Error: pass
\* One iteration; after the last one the first step begins.
WaitFrame ==
    /\ pc = "wait_frames"
    /\ \E r \in Results("wait_for_load_state") :
        /\ calls' = Append(calls, Call("wait_for_load_state", frame, r))
        /\ IF r = "ok" \/ Catches("Error", r)
           THEN /\ IF frame < frames
                   THEN /\ frame' = frame + 1
                        /\ UNCHANGED <<pc, step>>
                   ELSE /\ step' = 1
                        /\ pc' = StepEntry(flow, 1)
                        /\ UNCHANGED frame
                /\ UNCHANGED exc
           ELSE /\ exc' = Raise(Exception(r, DriverMessage(r, "wait_for_load_state"), pc), exc)
                /\ pc' = FinallyEntry
                /\ UNCHANGED <<frame, step>>
    /\ UNCHANGED <<flow, frames, pw, browser, context, page, status>>

\* await page.wait_for_timeout(3000), the settle delay of a click or fill step
Settle ==
    /\ pc = "settle"
    /\ \E r \in Results("wait_for_timeout") :
        IF r = "ok"
        THEN /\ calls' = Append(calls, Call("wait_for_timeout", step, r))
             /\ pc' = "act"
             /\ UNCHANGED exc
        ELSE Abort("wait_for_timeout", step, r)
    /\ UNCHANGED <<flow, step, frames, frame, pw, browser, context, page, status>>

\* The calls a step's action makes when it returns: the action, and for a
\* goto step the asyncio.sleep(3) after it.
ActCalls(f, n) ==
    IF Steps(f)[n] = "goto"
    THEN << Call("goto", n, "ok"), Call("sleep", n, "ok") >>
    ELSE << Call(Steps(f)[n], n, "ok") >>

\* A faulty variant of Act: a step whose action raises is skipped and the
\* sequence goes on.
ActFailureSkipped ==
    /\ pc = "act"
    /\ \E r \in Results(Steps(flow)[step]) :
        /\ calls' = IF r = "ok" THEN calls \o ActCalls(flow, step)
                                ELSE Append(calls, Call(Steps(flow)[step], step, r))
        /\ IF step < Len(Steps(flow))
           THEN /\ step' = step + 1
                /\ pc' = StepEntry(flow, step + 1)
           ELSE /\ pc' = "expect"
                /\ UNCHANGED step
        /\ UNCHANGED exc
    /\ UNCHANGED <<flow, frames, frame, pw, browser, context, page, status>>

\* await elem.click(timeout=5000) / await elem.fill(value) /
\* await page.goto(url, timeout=10000); await asyncio.sleep(3)
\* After the last step the final assertion follows.
Act ==
    /\ pc = "act"
    /\ \E r \in Results(Steps(flow)[step]) :
        IF r = "ok"
        THEN /\ calls' = calls \o ActCalls(flow, step)
             /\ IF step < Len(Steps(flow))
                THEN /\ step' = step + 1
                     /\ pc' = StepEntry(flow, step + 1)
                ELSE /\ pc' = "expect"
                     /\ UNCHANGED step
             /\ UNCHANGED exc
        ELSE /\ Abort(Steps(flow)[step], step, r)
             /\ UNCHANGED step
    /\ UNCHANGED <<flow, frames, frame, pw, browser, context, page, status>>

\* A faulty variant of Expect: the handler re-raises the driver's
\* AssertionError as it is (a bare raise).
ExpectReraised ==
    /\ pc = "expect"
    /\ \E r \in Results("expect") :
        /\ calls' = Append(calls, Call("expect", 0, r))
        /\ IF r = "ok"
           THEN /\ pc' = "hold"
                /\ UNCHANGED exc
           ELSE /\ exc' = Raise(Exception(r, DriverMessage(r, "expect"), pc), exc)
                /\ pc' = FinallyEntry
    /\ UNCHANGED <<flow, step, frames, frame, pw, browser, context, page, status>>

\* A faulty variant of Expect: the handler swallows the
\* AssertionError (pass) and the flow goes on as if the text was visible.
ExpectSwallowed ==
    /\ pc = "expect"
    /\ \E r \in Results("expect") :
        /\ calls' = Append(calls, Call("expect", 0, r))
        /\ IF r = "ok" \/ Catches("AssertionError", r)
           THEN /\ pc' = "hold"
                /\ UNCHANGED exc
           ELSE /\ exc' = Raise(Exception(r, DriverMessage(r, "expect"), pc), exc)
                /\ pc' = FinallyEntry
    /\ UNCHANGED <<flow, step, frames, frame, pw, browser, context, page, status>>

\* try: await expect(frame.locator('text=...').first).to_be_visible(timeout=...)
\* except AssertionError: raise AssertionError("Test failed: ...")
Expect ==
    /\ pc = "expect"
    /\ \E r \in Results("expect") :
        /\ calls' = Append(calls, Call("expect", 0, r))
        /\ IF r = "ok"
           THEN /\ pc' = "hold"
                /\ UNCHANGED exc
           ELSE LET raised == Raise(Exception(r, DriverMessage(r, "expect"), pc), exc)
                IN  /\ exc' = IF Catches("AssertionError", r)
                              THEN Raise(Exception("AssertionError", FailureMessage(flow), pc),
                                         raised)
                              ELSE raised
                    /\ pc' = FinallyEntry
    /\ UNCHANGED <<flow, step, frames, frame, pw, browser, context, page, status>>

\* await asyncio.sleep(5), then the try body ends and the finally block runs
Hold ==
    /\ pc = "hold"
    /\ calls' = Append(calls, Call("sleep", 0, "ok"))
    /\ pc' = FinallyEntry
    /\ UNCHANGED <<flow, step, frames, frame, pw, browser, context, page, exc, status>>

\* A faulty variant of Release: an error of the release call is suppressed
\* and the finally block goes on with its next statement.
ReleaseErrorSuppressed(p, handle, op) ==
    /\ pc = p
    /\ IF Truthy(handle)
       THEN \E r \in Results(op) : calls' = Append(calls, Call(op, 0, r))
       ELSE UNCHANGED calls
    /\ pc' = AfterRelease(p)
    /\ UNCHANGED <<flow, step, frames, frame, pw, browser, context, page, exc, status>>

\* One statement of the finally block:  if <handle>: await <release>
\* A release that raises ends run_test there, with the exception that was
\* in flight as its __context__.
Release(p, handle, op) ==
    /\ pc = p
    /\ IF Truthy(handle)
       THEN \E r \in Results(op) :
            /\ calls' = Append(calls, Call(op, 0, r))
            /\ IF r = "ok"
               THEN /\ pc' = AfterRelease(p)
                    /\ UNCHANGED exc
               ELSE /\ exc' = Raise(Exception(r, DriverMessage(r, op), p), exc)
                    /\ pc' = "done"
       ELSE /\ pc' = AfterRelease(p)
            /\ UNCHANGED <<calls, exc>>
    /\ UNCHANGED <<flow, step, frames, frame, pw, browser, context, page, status>>

\* if context: await context.close()
CloseContext == Release("close_context", context, "context.close")

\* if browser: await browser.close()
CloseBrowser == Release("close_browser", browser, "browser.close")

\* if pw: await pw.stop()
StopPw == Release("stop_pw", pw, "pw.stop")

\* asyncio.run(run_test()) at module level: run_test returned, or what it
\* raised reaches the top of the script unhandled and the process fails.
AsyncioRun ==
    /\ pc = "done"
    /\ pc' = "exit"
    /\ status' = IF exc = << >> THEN "exit 0" ELSE "exit 1"
    /\ UNCHANGED <<flow, step, frames, frame, pw, browser, context, page, exc, calls>>

Next ==
    \/ Start
    \/ Launch
    \/ NewContext
    \/ NewPage
    \/ Goto
    \/ WaitMain
    \/ WaitFrame
    \/ Settle
    \/ Act
    \/ Expect
    \/ Hold
    \/ CloseContext
    \/ CloseBrowser
    \/ StopPw
    \/ AsyncioRun

Spec == Init /\ [][Next]_vars
(***************************************************************************)
(* Vocabulary of the properties.                                           *)
(***************************************************************************)
AcquireOps == {"start", "launch", "new_context", "new_page"}
ReleaseOps == {"context.close", "browser.close", "pw.stop"}
StepOps == {"wait_for_timeout", "click", "fill", "goto"}

Made(op) == {i \in DOMAIN calls : calls[i].op = op}
RaisedAt(i) == calls[i].res /= "ok"
IsStepAction(c) == c.op \in {"click", "fill", "goto"} /\ c.arg > 0
IsStepCall(c) == c.op \in StepOps /\ c.arg > 0

Ended == pc \in {"done", "exit"}
AssertionTimedOut == \E i \in Made("expect") : calls[i].res = "AssertionError"
ReleaseRaised == \E i \in DOMAIN calls : calls[i].op \in ReleaseOps /\ RaisedAt(i)
StepRaised == \E i \in DOMAIN calls : IsStepCall(calls[i]) /\ RaisedAt(i)

\* The exception run_test raised at the assertion: the one in flight, or its
\* __context__ when a release call raised over it during the finally block.
AssertionFailure == exc[IF ReleaseRaised THEN 2 ELSE 1]

ReleaseRank(op) ==
    CASE op = "context.close" -> 1
      [] op = "browser.close" -> 2
      [] op = "pw.stop"       -> 3

\* The outcome as the state of run_test determines it: Pass when nothing is
\* in flight, Fail with the message of the exception in flight.
Outcome == IF exc = << >> THEN << "Pass" >> ELSE << "Fail", exc[1].msg >>
OutcomeDetermined == pc \in {"close_context", "close_browser", "stop_pw", "done", "exit"}

\* The finally block has reached every handle that was acquired: its
\* release call has been made.
TornDown ==
    /\ Truthy(context) => Made("context.close") /= {}
    /\ Truthy(browser) => Made("browser.close") /= {}
    /\ Truthy(pw) => Made("pw.stop") /= {}

(***************************************************************************)
(* C1.  When run_test has ended, the driver was started exactly once and   *)
(* every handle that was acquired (context, browser, driver) has been      *)
(* released exactly once.                                                  *)
(***************************************************************************)
C1_AcquiredReleasedOnce ==
    Ended =>
        /\ Cardinality(Made("start")) = 1
        /\ Cardinality(Made("context.close")) = (IF Truthy(context) THEN 1 ELSE 0)
        /\ Cardinality(Made("browser.close")) = (IF Truthy(browser) THEN 1 ELSE 0)
        /\ Cardinality(Made("pw.stop")) = (IF Truthy(pw) THEN 1 ELSE 0)

(***************************************************************************)
(* C2 as stated.  When the final assertion of the password-reset flow      *)
(* times out, the flow fails with a message containing "password was not   *)
(* updated" and no error passes the caller of run_test unhandled.          *)
(***************************************************************************)
C2_NoUnhandledError ==
    (flow = "TC004" /\ AssertionTimedOut /\ pc = "exit") =>
        /\ exc /= << >>
        /\ Contains(exc[1].msg, "password was not updated")
        /\ status = "exit 0"

(***************************************************************************)
(* C2 amended.  When the final assertion of the password-reset flow times  *)
(* out, run_test raises an AssertionError whose message contains           *)
(* "password was not updated"; it is the exception in flight, or the       *)
(* __context__ of the error of a release call that raised during the       *)
(* finally block, and what run_test raises passes asyncio.run unhandled:   *)
(* the script exits with status 1.                                         *)
(***************************************************************************)
C2_AssertionErrorPropagates ==
    (flow = "TC004" /\ AssertionTimedOut) =>
        /\ Len(exc) >= (IF ReleaseRaised THEN 2 ELSE 1)
        /\ AssertionFailure.kind = "AssertionError"
        /\ Contains(AssertionFailure.msg, "password was not updated")
        /\ pc = "exit" => status = "exit 1"

C2_Witness ==
    /\ flow = "TC004"
    /\ AssertionTimedOut
    /\ ~ReleaseRaised
    /\ status = "exit 1"

(***************************************************************************)
(* C3.  The release calls occur in the order context, browser, driver,     *)
(* after every other call: the browser is not closed before an acquired    *)
(* context, nor the driver stopped before an acquired browser.             *)
(***************************************************************************)
C3_TeardownOrder ==
    /\ \A i, j \in DOMAIN calls :
        (i < j /\ calls[i].op \in ReleaseOps) =>
            /\ calls[j].op \in ReleaseOps
            /\ ReleaseRank(calls[i].op) < ReleaseRank(calls[j].op)
    /\ (Made("browser.close") /= {} /\ Truthy(context)) => Made("context.close") /= {}
    /\ (Made("pw.stop") /= {} /\ Truthy(browser)) => Made("browser.close") /= {}

C3_Witness ==
    /\ pc = "exit"
    /\ StepRaised
    /\ Made("context.close") /= {}
    /\ Made("browser.close") /= {}
    /\ Made("pw.stop") /= {}

(***************************************************************************)
(* C4 as stated.  The invoice-payment flow passes only if the final        *)
(* assertion saw the text; every other execution fails with the message    *)
(* citing the Sent to Paid transition.                                     *)
(***************************************************************************)
C4_EveryFailureCitesSentToPaid ==
    (flow = "TC013" /\ pc = "exit") =>
        IF status = "exit 0"
        THEN \E i \in Made("expect") : ~RaisedAt(i)
        ELSE /\ exc /= << >>
             /\ Contains(exc[1].msg, "Invoice status did not update from Sent to Paid")

(***************************************************************************)
(* C4 amended.  The invoice-payment flow passes only if the final          *)
(* assertion, made right after the last step, saw the text; when the       *)
(* assertion times out, run_test raises an AssertionError whose message    *)
(* cites the Sent to Paid transition (in flight, or the __context__ of the *)
(* error of a release call that raised) and the script exits with status   *)
(* 1.  A flow that fails elsewhere fails with the driver's own error.      *)
(***************************************************************************)
C4_PassOnlyIfVisible ==
    flow = "TC013" =>
        /\ status = "exit 0" =>
            \E i \in Made("expect") :
                /\ ~RaisedAt(i)
                /\ i > 1
                /\ calls[i - 1] = Call(Steps(flow)[Len(Steps(flow))], Len(Steps(flow)), "ok")
        /\ AssertionTimedOut =>
            /\ Len(exc) >= (IF ReleaseRaised THEN 2 ELSE 1)
            /\ AssertionFailure.kind = "AssertionError"
            /\ Contains(AssertionFailure.msg, "Invoice status did not update from Sent to Paid")
            /\ pc = "exit" => status = "exit 1"
        /\ (exc /= << >> /\ ~AssertionTimedOut) =>
            \A k \in DOMAIN exc :
                ~Contains(exc[k].msg, "Invoice status did not update from Sent to Paid")

C4_Witness ==
    /\ flow = "TC013"
    /\ AssertionTimedOut
    /\ ~ReleaseRaised
    /\ pc = "exit"

(***************************************************************************)
(* C5.  A timeout of a best-effort load-state wait is never the exception  *)
(* in flight: right after it comes the next frame's wait or the first      *)
(* step, with nothing in flight.                                           *)
(***************************************************************************)
C5_BestEffortSwallowed ==
    /\ \A k \in DOMAIN exc : exc[k].site \notin {"wait_main", "wait_frames"}
    /\ \A i \in Made("wait_for_load_state") :
        RaisedAt(i) =>
            IF i < Len(calls)
            THEN \/ /\ calls[i + 1].op = "wait_for_load_state"
                    /\ calls[i + 1].arg = calls[i].arg + 1
                 \/ /\ IsStepCall(calls[i + 1])
                    /\ calls[i + 1].arg = 1
            ELSE /\ pc \in {"wait_frames", "settle", "act"}
                 /\ exc = << >>

C5_Witness ==
    /\ status = "exit 0"
    /\ \E i \in Made("wait_for_load_state") :
        calls[i].arg = 0 /\ calls[i].res = "TimeoutError"
    /\ \E i \in Made("wait_for_load_state") :
        calls[i].arg > 0 /\ calls[i].res = "TimeoutError"

(***************************************************************************)
(* C6.  The step actions made are the first k authored steps in their      *)
(* order, each begun only after the one before it returned; after a step   *)
(* call that raised, nothing but release calls is made.                    *)
(***************************************************************************)
C6_StepsFormPrefix ==
    LET acts == SelectSeq(calls, IsStepAction)
    IN  /\ Len(acts) <= Len(Steps(flow))
        /\ \A k \in DOMAIN acts :
            /\ acts[k].arg = k
            /\ acts[k].op = Steps(flow)[k]
            /\ k < Len(acts) => acts[k].res = "ok"
        /\ \A i, j \in DOMAIN calls :
            (i < j /\ IsStepCall(calls[i]) /\ RaisedAt(i)) => calls[j].op \in ReleaseOps

C6_Witness ==
    /\ pc = "exit"
    /\ \E i \in DOMAIN calls :
        /\ IsStepAction(calls[i])
        /\ calls[i].arg = 3
        /\ RaisedAt(i)

(***************************************************************************)
(* C7.  A flow that has ended is torn down: every handle it acquired has   *)
(* been released.                                                          *)
(***************************************************************************)
C7_TerminalIsTornDown ==
    status /= "running" =>
        /\ TornDown
        /\ Outcome[1] = (IF status = "exit 0" THEN "Pass" ELSE "Fail")

(***************************************************************************)
(* C8.  Once the outcome is determined (the try body has been left), the   *)
(* teardown and the exit do not replace it by another.                     *)
(***************************************************************************)
C8_OutcomeNeverReplaced == [][OutcomeDetermined => Outcome' = Outcome]_vars

(***************************************************************************)
(* C9.  After an acquisition call that raised, nothing but release calls   *)
(* is made (no navigation, wait, step or assertion), and the failure is    *)
(* no AssertionError and carries no assertion message; the script exits    *)
(* with status 1.                                                          *)
(***************************************************************************)
C9_AcquisitionFailureAborts ==
    \A i \in DOMAIN calls :
        (calls[i].op \in AcquireOps /\ RaisedAt(i)) =>
            /\ \A j \in DOMAIN calls :
                /\ calls[j].op \notin {"wait_for_load_state", "expect", "sleep"} \cup StepOps
                /\ j > i => calls[j].op \in ReleaseOps
            /\ exc /= << >>
            /\ \A k \in DOMAIN exc :
                /\ exc[k].kind /= "AssertionError"
                /\ \A f \in Flows : exc[k].msg /= FailureMessage(f)
            /\ pc = "exit" => status = "exit 1"

C9_Witness ==
    /\ pc = "exit"
    /\ \E i \in Made("new_page") : RaisedAt(i)

(***************************************************************************)
(* C10.  A release call that raises is the last call run_test makes: the   *)
(* releases after it in the finally block are not attempted.               *)
(***************************************************************************)
C10_ReleaseFailureAbortsTeardown ==
    \A i \in DOMAIN calls :
        (calls[i].op \in ReleaseOps /\ RaisedAt(i)) =>
            /\ i = Len(calls)
            /\ Ended

C10_Witness ==
    /\ pc = "exit"
    /\ \E i \in Made("context.close") : RaisedAt(i)
    /\ Truthy(browser) /\ Made("browser.close") = {}
    /\ Truthy(pw) /\ Made("pw.stop") = {}
====
